---- MODULE Spec2Model ----
(***************************************************************************)
(* bal.rs: a reverse-proxy load balancer.                                  *)
(*                                                                         *)
(* Part 1 models src/main.rs: Config, Server, Config::new, Config::update, *)
(* get_algo, get_algo_rev and main, as a state machine over the files on   *)
(* disk and the command line.                                              *)
(* Part 2 models the dispatch engine behind lb::start_lb (module lb, which *)
(* main.rs declares with `mod lb;`) from the design in spec.md sections    *)
(* 3 to 5: the Server Registry, the six Selectors, the Health Checker and  *)
(* the Proxy Dispatcher.                                                   *)
(***************************************************************************)
EXTENDS Integers, Sequences, FiniteSets, TLC

(***************************************************************************)
(* Bounds of the model.                                                    *)
(***************************************************************************)
\* the longest servers: line of a config file
MaxServers == 3
\* the largest weight on a weights: line
MaxWeight == 3
\* the number of concurrent request-handling tasks of the dispatcher
MaxRequests == 2

VARIABLES
    pc,         \* position of main: "new", "loaded", "serving", "exit", "fatal"
    config,     \* the Config value owned by main, later by lb::start_lb
    fs,         \* the files on disk: path -> file
    cli,        \* the parsed command line
    output,     \* the number printed by --server-count, NoNum before
    algoCalls,  \* the calls of get_algo made so far: {<<argument, result>>}
    cursor,     \* the Selection Cursor of the round-robin family
    req,        \* the dispatcher's request tasks
    seed,       \* the addresses lb::start_lb was handed, in configuration order
    picks,      \* positions in the alive list picked since the cursor was 0
    cycleOpen   \* the alive list is unchanged since the cursor was last 0

vars ==
    <<pc, config, fs, cli, output, algoCalls, cursor, req, seed, picks, cycleOpen>>
lbVars == <<cursor, req, picks, cycleOpen>>

(***************************************************************************)
(* Values.                                                                 *)
(***************************************************************************)
\* Option::None for a string, and a line that is not in the file
None == "<none>"
\* a number token that str::parse::<u32>/<u64> rejects
BadNum == 0 - 1
\* a numeric line that is not in the file, a number not printed
NoNum == 0 - 2

\* enum Algorithm
Algorithm ==
    {"RoundRobin", "WeightedRoundRobin", "LeastConnections",
     "WeightedLeastConnections", "LeastResponseTime", "WeightedLeastResponseTime"}

\* fn get_algo(algo: &str) -> Algorithm
get_algo_missing_arm(algo) ==
    CASE algo = "round_robin" -> "RoundRobin"
      [] algo = "weighted_round_robin" -> "WeightedRoundRobin"
      [] algo = "least_connections" -> "LeastConnections"
      [] algo = "weighted_least_connections" -> "WeightedLeastConnections"
      [] algo = "least_response_time" -> "LeastResponseTime"
      [] OTHER -> "RoundRobin"

get_algo(algo) ==
    CASE algo = "round_robin" -> "RoundRobin"
      [] algo = "weighted_round_robin" -> "WeightedRoundRobin"
      [] algo = "least_connections" -> "LeastConnections"
      [] algo = "weighted_least_connections" -> "WeightedLeastConnections"
      [] algo = "least_response_time" -> "LeastResponseTime"
      [] algo = "weighted_least_response_time" -> "WeightedLeastResponseTime"
      [] OTHER -> "RoundRobin"

\* fn get_algo_rev(algo: Algorithm) -> &str
get_algo_rev(algo) ==
    CASE algo = "RoundRobin" -> "round_robin"
      [] algo = "WeightedRoundRobin" -> "weighted_round_robin"
      [] algo = "LeastConnections" -> "least_connections"
      [] algo = "WeightedLeastConnections" -> "weighted_least_connections"
      [] algo = "LeastResponseTime" -> "least_response_time"
      [] algo = "WeightedLeastResponseTime" -> "weighted_least_response_time"

(***************************************************************************)
(* Strings and URIs.  A line's value is the text after its key; str::trim  *)
(* removes the white space around it.  "x".parse::<hyper::Uri>() accepts   *)
(* an absolute http URI and yields the same Uri with or without the        *)
(* trailing "/" of an empty path; Uri::to_string writes the "/".           *)
(***************************************************************************)
Padded ==
    {<<" round_robin", "round_robin">>,
     <<" weighted_round_robin ", "weighted_round_robin">>,
     <<" least_connections", "least_connections">>,
     <<" http://10.0.0.1:9000", "http://10.0.0.1:9000">>,
     <<" http://10.0.0.3:7000/ ", "http://10.0.0.3:7000/">>}

\* str::trim on the line values of the model
trim(s) ==
    IF \E p \in Padded : p[1] = s
    THEN (CHOOSE p \in Padded : p[1] = s)[2]
    ELSE s

UriForms ==
    {<<"http://127.0.0.1:8000", "http://127.0.0.1:8000/">>,
     <<"http://10.0.0.1:9000", "http://10.0.0.1:9000/">>,
     <<"http://10.0.0.2:9000", "http://10.0.0.2:9000/">>,
     <<"http://10.0.0.3:7000", "http://10.0.0.3:7000/">>}

\* the backend addresses of the model, as written on a servers: line
Backend(i) ==
    CASE i = 1 -> "http://a:1/"
      [] i = 2 -> "http://b:1/"
      [] i = 3 -> "http://c:1/"
      [] i = 4 -> "http://d:1/"
      [] OTHER -> "http://e:1/"

BadUri == "not a uri"

\* str::parse::<hyper::Uri>: whether it is Ok
uri_ok(s) ==
    \/ \E u \in UriForms : s = u[1] \/ s = u[2]
    \/ \E i \in 1..(MaxServers + 2) : s = Backend(i)

\* str::parse::<hyper::Uri>: the Uri of an Ok result, named by its to_string
parse_uri(s) ==
    IF \E u \in UriForms : s = u[1]
    THEN (CHOOSE u \in UriForms : s = u[1])[2]
    ELSE s

\* Uri::to_string
uri_to_string(u) == u

\* Duration::from_secs
from_secs(n) == n

(***************************************************************************)
(* Server and Config.                                                      *)
(***************************************************************************)
\* Server::new
Server_new_busy(addr, weight, max_connections) ==
    [addr |-> addr, weight |-> weight, max_connections |-> max_connections,
     response_time |-> from_secs(0), connections |-> 1]

Server_new_timed(addr, weight, max_connections) ==
    [addr |-> addr, weight |-> weight, max_connections |-> max_connections,
     response_time |-> from_secs(1), connections |-> 0]

Server_new_swapped(addr, weight, max_connections) ==
    [addr |-> addr, weight |-> max_connections, max_connections |-> weight,
     response_time |-> from_secs(0), connections |-> 0]

Server_new(addr, weight, max_connections) ==
    [addr |-> addr, weight |-> weight, max_connections |-> max_connections,
     response_time |-> from_secs(0), connections |-> 0]

\* Config::new
Config_new ==
    [load_balancer |-> parse_uri("http://127.0.0.1:8000"),
     algo |-> "RoundRobin",
     servers |-> <<>>,
     timeout |-> from_secs(0),
     health_check_interval |-> from_secs(0),
     dead_servers |-> <<>>]

\* the for loop of Config::update that pushes one Server per address
PushServers_both(self, servers, weights, max_connections) ==
    LET new == [i \in 1..Len(servers) |->
                    Server_new(servers[i], weights[i], max_connections[i])]
    IN [self EXCEPT !.servers = @ \o new, !.dead_servers = @ \o new]

PushServers(self, servers, weights, max_connections) ==
    [self EXCEPT !.servers = @ \o
        [i \in 1..Len(servers) |->
            Server_new(servers[i], weights[i], max_connections[i])]]

\* the argument Config::update hands to get_algo, None without an algorithm: line
AlgoArg(file, algorithm) ==
    IF file.algorithm = None THEN None
    ELSE IF algorithm # None THEN algorithm ELSE trim(file.algorithm)

\* the address Config::update parses on a load balancer: line
AddrArg(file, addr) ==
    IF addr # None THEN addr ELSE trim(file.load_balancer)

\* whether Config::update returns Err (File::open) or panics (expect, index)
UpdateFails(file) ==
    \/ ~file.exists
    \/ \E i \in 1..Len(file.servers) : ~uri_ok(trim(file.servers[i]))
    \/ \E i \in 1..Len(file.weights) : file.weights[i] = BadNum
    \/ \E i \in 1..Len(file.max_connections) : file.max_connections[i] = BadNum
    \/ file.timeout = BadNum
    \/ file.health_check_interval = BadNum
    \/ Len(file.weights) < Len(file.servers)
    \/ Len(file.max_connections) < Len(file.servers)

\* Config::update on a file it reads to the end: the Config it leaves
Config_update(self, file, addr, algorithm) ==
    LET c1 == IF file.load_balancer = None THEN self
              ELSE [self EXCEPT !.load_balancer =
                        IF uri_ok(AddrArg(file, addr))
                        THEN parse_uri(AddrArg(file, addr))
                        ELSE parse_uri("http://127.0.0.1:8000")]
        c2 == IF file.algorithm = None THEN c1
              ELSE [c1 EXCEPT !.algo = get_algo(AlgoArg(file, algorithm))]
        c3 == IF file.timeout = NoNum THEN c2
              ELSE [c2 EXCEPT !.timeout = from_secs(file.timeout)]
        c4 == IF file.health_check_interval = NoNum THEN c3
              ELSE [c3 EXCEPT !.health_check_interval =
                        from_secs(file.health_check_interval)]
    IN PushServers(c4, [i \in 1..Len(file.servers) |-> parse_uri(trim(file.servers[i]))],
                   file.weights, file.max_connections)

\* the calls of get_algo after Config::update
NoteAlgoCall(file, algorithm) ==
    IF AlgoArg(file, algorithm) = None THEN algoCalls
    ELSE algoCalls \cup
            {<<AlgoArg(file, algorithm), get_algo(AlgoArg(file, algorithm))>>}

(***************************************************************************)
(* The files on disk and the command line.  A file holds at most one line  *)
(* of each key; a list line that is absent reads as the empty list         *)
(* (Vec::new()), an absent string line as None, an absent number as NoNum. *)
(***************************************************************************)
Paths == {"config.yaml", "other.yaml"}

File(lb, algorithm, servers, weights, max_connections, timeout, interval) ==
    [exists |-> TRUE, load_balancer |-> lb, algorithm |-> algorithm,
     servers |-> servers, weights |-> weights,
     max_connections |-> max_connections,
     timeout |-> timeout, health_check_interval |-> interval]

\* a path File::open fails on
MissingFile ==
    [exists |-> FALSE, load_balancer |-> None, algorithm |-> None,
     servers |-> <<>>, weights |-> <<>>, max_connections |-> <<>>,
     timeout |-> NoNum, health_check_interval |-> NoNum]

\* a servers: line of n addresses, the first being Backend(k)
ServersLine(k, n) == [i \in 1..n |-> Backend(k + i - 1)]

\* the weights: lines of n weights
WeightLines(n) ==
    {[i \in 1..n |-> IF i = 1 THEN w ELSE r] : w \in 0..MaxWeight, r \in 0..1}

\* a max connections: line of n caps
MaxConnLine(n) == [i \in 1..n |-> 10 * i]

\* files that differ in their three lists
ListFiles ==
    UNION {{File(" http://10.0.0.1:9000", " weighted_round_robin ",
                 ServersLine(1, n), w, MaxConnLine(m), 5, 2) :
                w \in WeightLines(k)} :
           n \in 0..MaxServers, k \in 0..(MaxServers + 1), m \in 0..(MaxServers + 1)}

\* files with a token that does not parse
BadFiles ==
    {File(None, None, <<BadUri>>, <<1>>, <<10>>, NoNum, NoNum),
     File(None, None, ServersLine(1, 1), <<BadNum>>, <<10>>, NoNum, NoNum),
     File(None, None, ServersLine(1, 1), <<1>>, <<BadNum>>, NoNum, NoNum),
     File(None, None, ServersLine(1, 1), <<1>>, <<10>>, BadNum, NoNum),
     File(None, None, ServersLine(1, 1), <<1>>, <<10>>, 5, BadNum)}

OtherListFiles ==
    {MissingFile,
     File(None, " least_connections", ServersLine(2, 2), <<2, 1>>, <<7, 8>>, 9, NoNum),
     File(None, None, ServersLine(1, 1), <<0, 1>>, <<7, 8, 9>>, NoNum, NoNum),
     File(None, None, ServersLine(1, 2), <<1>>, <<7, 8>>, NoNum, NoNum)}

AlgorithmIdentifiers ==
    {"round_robin", "weighted_round_robin", "least_connections",
     "weighted_least_connections", "least_response_time",
     "weighted_least_response_time"}

AlgoValues ==
    AlgorithmIdentifiers \cup
    {None, " round_robin", " weighted_round_robin ", " least_connections",
     "Round_Robin", "LEAST_CONNECTIONS", "Weighted_Least_Response_Time",
     "random", ""}

LbValues == {None, " http://10.0.0.1:9000", " http://10.0.0.3:7000/ ", BadUri}

\* files that differ in their algorithm: and load balancer: lines
AlgoFiles ==
    {File(lb, a, ServersLine(1, 1), <<1>>, <<10>>, 5, 2) :
        lb \in LbValues, a \in AlgoValues}

OtherAlgoFiles ==
    {MissingFile,
     File(None, None, ServersLine(2, 1), <<1>>, <<10>>, NoNum, NoNum),
     File(" http://10.0.0.3:7000/ ", " least_connections",
          ServersLine(2, 1), <<1>>, <<10>>, NoNum, 4),
     File(BadUri, "weighted_least_response_time",
          <<>>, <<>>, <<>>, 3, NoNum)}

\* the command lines: --path, -s, and start with -u and -a
CommandLines(addresses, algorithms) ==
    {[path |-> p, server_count |-> s, subcommand |-> c,
      address |-> IF c = "start" THEN u ELSE None,
      algorithm |-> IF c = "start" THEN a ELSE None] :
        p \in Paths, s \in BOOLEAN, c \in {"start", "stop", None},
        u \in addresses, a \in algorithms}

CliAddresses == {None, "http://10.0.0.2:9000", BadUri}
CliAlgorithms == {None, "weighted_least_connections", "Round_Robin"}

IdleRequests ==
    [r \in 1..MaxRequests |->
        [pc |-> "idle", target |-> None, outcome |-> None, incs |-> 0, decs |-> 0]]

InitProcess ==
    /\ pc = "new"
    /\ config = Config_new
    /\ output = NoNum
    /\ algoCalls = {}
    /\ cursor = 0
    /\ req = IdleRequests
    /\ seed = <<>>
    /\ picks = <<>>
    /\ cycleOpen = FALSE

Init ==
    /\ InitProcess
    /\ \/ /\ \E f \in ListFiles \cup BadFiles, g \in OtherListFiles :
                fs = [p \in Paths |-> IF p = "config.yaml" THEN f ELSE g]
          /\ cli \in CommandLines({None}, {None})
       \/ /\ \E f \in AlgoFiles, g \in OtherAlgoFiles :
                fs = [p \in Paths |-> IF p = "config.yaml" THEN f ELSE g]
          /\ cli \in CommandLines(CliAddresses, CliAlgorithms)

(***************************************************************************)
(* main.                                                                   *)
(***************************************************************************)
\* let mut config = Config::new(); config.update("config.yaml", None, None)?;
main_load_default ==
    /\ pc = "new"
    /\ LET file == fs["config.yaml"] IN
       IF UpdateFails(file)
       THEN /\ pc' = "fatal"
            /\ UNCHANGED <<config, algoCalls>>
       ELSE /\ pc' = "loaded"
            /\ config' = Config_update(config, file, None, None)
            /\ algoCalls' = NoteAlgoCall(file, None)
    /\ UNCHANGED <<fs, cli, output, seed, lbVars>>

\* if server-count { println!("{} servers listed", config.servers.len()); return }
main_server_count ==
    /\ pc = "loaded"
    /\ cli.server_count
    /\ output' = Len(config.servers)
    /\ pc' = "exit"
    /\ UNCHANGED <<config, fs, cli, algoCalls, seed, lbVars>>

\* the address main hands to the second Config::update
StartAddress ==
    IF cli.address # None THEN cli.address
    ELSE uri_to_string(config.load_balancer)

\* the algorithm main hands to the second Config::update
StartAlgorithm ==
    IF cli.algorithm # None THEN cli.algorithm
    ELSE get_algo_rev(config.algo)

\* Some("start") => { config.update(path, address, algo)?; lb::start_lb(config) }
main_start ==
    /\ pc = "loaded"
    /\ ~cli.server_count
    /\ cli.subcommand = "start"
    /\ LET file == fs[cli.path] IN
       IF UpdateFails(file)
       THEN /\ pc' = "fatal"
            /\ UNCHANGED <<config, algoCalls, seed>>
       ELSE /\ pc' = "serving"
            /\ config' = Config_update(config, file, StartAddress, StartAlgorithm)
            /\ algoCalls' = NoteAlgoCall(file, StartAlgorithm)
            /\ seed' = [i \in DOMAIN config'.servers |-> config'.servers[i].addr]
    /\ UNCHANGED <<fs, cli, output, lbVars>>

\* _ => println!("Invalid command")
main_invalid_command ==
    /\ pc = "loaded"
    /\ ~cli.server_count
    /\ cli.subcommand # "start"
    /\ pc' = "exit"
    /\ UNCHANGED <<config, fs, cli, output, algoCalls, seed, lbVars>>

(***************************************************************************)
(* The dispatch engine run by lb::start_lb(config), after spec.md.         *)
(*                                                                         *)
(* Server Registry (4.1).  The alive set is Config.servers and the dead    *)
(* set is Config.dead_servers, both kept in configuration order.  A server *)
(* is named by its address: an operation on a server acts on the first     *)
(* entry with that address, and a health transition moves every entry with *)
(* it.                                                                     *)
(***************************************************************************)
listAlive(cfg) == cfg.servers

AddrsOf(servers) == {servers[i].addr : i \in DOMAIN servers}

listAll(cfg) == cfg.servers \o cfg.dead_servers

HasAddr(servers, a) == \E i \in DOMAIN servers : servers[i].addr = a

FirstOf(servers, a) ==
    CHOOSE i \in DOMAIN servers :
        /\ servers[i].addr = a
        /\ \A j \in 1..(i - 1) : servers[j].addr # a

WithAddr(servers, a) == SelectSeq(servers, LAMBDA s : s.addr = a)

WithoutAddr(servers, a) == SelectSeq(servers, LAMBDA s : s.addr # a)

RECURSIVE InOrder(_, _)
\* the entries arranged in the configuration order of their addresses
InOrder(order, entries) ==
    IF order = <<>> THEN <<>>
    ELSE WithAddr(entries, Head(order))
            \o InOrder(Tail(order), WithoutAddr(entries, Head(order)))

\* markDead(server): idempotent
markDead(cfg, a) ==
    IF ~HasAddr(cfg.servers, a) THEN cfg
    ELSE [cfg EXCEPT
            !.servers = WithoutAddr(@, a),
            !.dead_servers = InOrder(seed, @ \o WithAddr(cfg.servers, a))]

\* markAlive(server): idempotent
markAlive(cfg, a) ==
    IF ~HasAddr(cfg.dead_servers, a) THEN cfg
    ELSE [cfg EXCEPT
            !.servers = InOrder(seed, @ \o WithAddr(cfg.dead_servers, a)),
            !.dead_servers = WithoutAddr(@, a)]

\* whether the Registry knows a server with address a
Known(cfg, a) == HasAddr(listAll(cfg), a)

\* the server with address a
ServerOf(cfg, a) ==
    IF HasAddr(cfg.servers, a)
    THEN cfg.servers[FirstOf(cfg.servers, a)]
    ELSE cfg.dead_servers[FirstOf(cfg.dead_servers, a)]

\* the server with address a replaced by s, wherever it is
PutServer(cfg, a, s) ==
    IF HasAddr(cfg.servers, a)
    THEN [cfg EXCEPT !.servers[FirstOf(cfg.servers, a)] = s]
    ELSE [cfg EXCEPT !.dead_servers[FirstOf(cfg.dead_servers, a)] = s]

incrementConnections(cfg, a) ==
    IF ~Known(cfg, a) THEN cfg
    ELSE PutServer(cfg, a, [ServerOf(cfg, a) EXCEPT !.connections = @ + 1])

\* clamps at 0
decrementConnections(cfg, a) ==
    IF ~Known(cfg, a) THEN cfg
    ELSE PutServer(cfg, a,
            [ServerOf(cfg, a) EXCEPT !.connections = IF @ > 0 THEN @ - 1 ELSE 0])

recordResponseTime(cfg, a, d) ==
    IF ~Known(cfg, a) THEN cfg
    ELSE PutServer(cfg, a, [ServerOf(cfg, a) EXCEPT !.response_time = d])

(***************************************************************************)
(* Selector (4.2).                                                         *)
(***************************************************************************)
RECURSIVE SumWeights(_)
SumWeights(alive) ==
    IF alive = <<>> THEN 0 ELSE Head(alive).weight + SumWeights(Tail(alive))

RECURSIVE WeightedIndex(_, _, _)
\* the entry at position pos (from 0) of the rotation expanded into weight
\* copies of each server, counted from entry i
WeightedIndex(alive, i, pos) ==
    IF pos < alive[i].weight THEN i
    ELSE WeightedIndex(alive, i + 1, pos - alive[i].weight)

\* a weight as the weighted least-* selectors use it: at least 1
EffectiveWeight(s) == IF s.weight >= 1 THEN s.weight ELSE 1

\* whether server s ranks strictly before server t
Before(algo, s, t) ==
    CASE algo = "LeastConnections" -> s.connections < t.connections
      [] algo = "WeightedLeastConnections" ->
            s.connections * EffectiveWeight(t) < t.connections * EffectiveWeight(s)
      [] algo = "LeastResponseTime" -> s.response_time < t.response_time
      [] algo = "WeightedLeastResponseTime" ->
            s.response_time * EffectiveWeight(t) < t.response_time * EffectiveWeight(s)
      [] OTHER -> FALSE

\* the first minimum in configuration order
LeastIndex(algo, alive) ==
    CHOOSE i \in DOMAIN alive :
        /\ \A j \in 1..(i - 1) : Before(algo, alive[i], alive[j])
        /\ \A j \in (i + 1)..Len(alive) : ~Before(algo, alive[j], alive[i])

\* select(aliveServers): the position picked (0: NoServerAvailable) and the
\* cursor after the call
select(algo, alive, cur) ==
    IF alive = <<>> THEN [index |-> 0, cursor |-> cur]
    ELSE CASE algo = "RoundRobin" ->
                [index |-> (cur % Len(alive)) + 1,
                 cursor |-> ((cur % Len(alive)) + 1) % Len(alive)]
           [] algo = "WeightedRoundRobin" ->
                IF SumWeights(alive) = 0 THEN [index |-> 0, cursor |-> cur]
                ELSE [index |-> WeightedIndex(alive, 1, cur % SumWeights(alive)),
                      cursor |-> ((cur % SumWeights(alive)) + 1) % SumWeights(alive)]
           [] OTHER -> [index |-> LeastIndex(algo, alive), cursor |-> cur]

(***************************************************************************)
(* Health Checker (4.3): a probe of a known server ends in markAlive or    *)
(* markDead.                                                                *)
(***************************************************************************)
health_probe(a, ok) ==
    /\ pc = "serving"
    /\ HasAddr(listAll(config), a)
    /\ config' = IF ok THEN markAlive(config, a) ELSE markDead(config, a)
    /\ IF listAlive(config') = listAlive(config)
       THEN UNCHANGED <<picks, cycleOpen>>
       ELSE picks' = <<>> /\ cycleOpen' = FALSE
    /\ UNCHANGED <<pc, fs, cli, output, algoCalls, seed, cursor, req>>

(***************************************************************************)
(* Proxy Dispatcher (4.4): one task per request.                           *)
(***************************************************************************)
Outcomes == {"success", "backend error", "timeout", "client disconnect"}

\* 1. Admit
dispatch_admit(r) ==
    /\ pc = "serving"
    /\ req[r].pc \in {"idle", "done", "unavailable"}
    /\ req' = [req EXCEPT ![r] =
                [pc |-> "admitted", target |-> None, outcome |-> None,
                 incs |-> 0, decs |-> 0]]
    /\ UNCHANGED <<pc, config, fs, cli, output, algoCalls, seed, cursor, picks, cycleOpen>>

\* 2. Select
dispatch_select(r) ==
    /\ pc = "serving"
    /\ req[r].pc = "admitted"
    /\ LET alive == listAlive(config)
           sel == select(config.algo, alive, cursor)
       IN /\ cursor' = sel.cursor
          /\ req' = [req EXCEPT ![r] =
                        IF sel.index = 0
                        THEN [@ EXCEPT !.pc = "unavailable"]
                        ELSE [@ EXCEPT !.pc = "selected",
                                       !.target = alive[sel.index].addr]]
          /\ IF config.algo = "WeightedRoundRobin" /\ sel.index # 0
             THEN IF cursor % SumWeights(alive) = 0
                  THEN picks' = <<sel.index>> /\ cycleOpen' = TRUE
                  ELSE IF cycleOpen
                  THEN picks' = Append(picks, sel.index) /\ UNCHANGED cycleOpen
                  ELSE UNCHANGED <<picks, cycleOpen>>
             ELSE UNCHANGED <<picks, cycleOpen>>
    /\ UNCHANGED <<pc, config, fs, cli, output, algoCalls, seed>>

\* 3. Reserve
dispatch_reserve(r) ==
    /\ pc = "serving"
    /\ req[r].pc = "selected"
    /\ config' = incrementConnections(config, req[r].target)
    /\ req' = [req EXCEPT ![r].pc = "forwarding", ![r].incs = @ + 1]
    /\ UNCHANGED <<pc, fs, cli, output, algoCalls, seed, cursor, picks, cycleOpen>>

\* 4 to 6. Forward ends one way or another, then Release
dispatch_release(r, outcome, elapsed) ==
    /\ pc = "serving"
    /\ req[r].pc = "forwarding"
    /\ config' =
        IF outcome = "success"
        THEN recordResponseTime(
                decrementConnections(config, req[r].target), req[r].target, elapsed)
        ELSE decrementConnections(config, req[r].target)
    /\ req' = [req EXCEPT ![r].pc = "done", ![r].outcome = outcome,
                          ![r].decs = @ + 1]
    /\ UNCHANGED <<pc, fs, cli, output, algoCalls, seed, cursor, picks, cycleOpen>>

NextLb ==
    \/ \E a \in AddrsOf(listAll(config)), ok \in BOOLEAN : health_probe(a, ok)
    \/ \E r \in 1..MaxRequests : dispatch_admit(r)
    \/ \E r \in 1..MaxRequests : dispatch_select(r)
    \/ \E r \in 1..MaxRequests : dispatch_reserve(r)
    \/ \E r \in 1..MaxRequests, outcome \in Outcomes :
            \E elapsed \in 0..config.timeout :
                /\ (outcome = "timeout" => elapsed = config.timeout)
                /\ dispatch_release(r, outcome, elapsed)

\* the configurations the dispatch engine is run from
NoServersFile ==
    File(" http://10.0.0.1:9000", " weighted_round_robin ", <<>>, <<>>, <<>>,
         NoNum, 1)

TwoServersFile(algorithm, timeout) ==
    File(None, algorithm, ServersLine(1, 2), <<2, 1>>, <<10, 20>>, timeout, 1)

ZeroWeightFile ==
    File(None, "weighted_round_robin", ServersLine(1, 1), <<0>>, <<10>>, NoNum, 1)

ThreeServersFile ==
    File(None, None, ServersLine(1, 3), <<3, 1, 1>>, <<1, 2, 3>>, NoNum, NoNum)

CommandLine(path, count, subcommand, algorithm) ==
    [path |-> path, server_count |-> count, subcommand |-> subcommand,
     address |-> None, algorithm |-> algorithm]

\* <<config.yaml, other.yaml, command line>>
LbRuns ==
    {<<NoServersFile, ThreeServersFile, CommandLine("other.yaml", FALSE, "start", None)>>,
     <<NoServersFile, ThreeServersFile, CommandLine("config.yaml", FALSE, "start", None)>>,
     <<TwoServersFile(" least_connections", 1), MissingFile,
       CommandLine("config.yaml", FALSE, "start", None)>>,
     <<TwoServersFile("weighted_least_response_time", 1), MissingFile,
       CommandLine("config.yaml", FALSE, "start", None)>>,
     <<TwoServersFile(" weighted_round_robin ", NoNum), MissingFile,
       CommandLine("config.yaml", FALSE, "start", None)>>,
     <<TwoServersFile("round_robin", NoNum), MissingFile,
       CommandLine("config.yaml", FALSE, "start", None)>>,
     <<TwoServersFile("weighted_least_connections", NoNum), MissingFile,
       CommandLine("config.yaml", FALSE, "start", None)>>,
     <<ZeroWeightFile, MissingFile, CommandLine("config.yaml", FALSE, "start", None)>>,
     <<ZeroWeightFile, MissingFile, CommandLine("other.yaml", FALSE, "start", None)>>,
     <<ZeroWeightFile, MissingFile, CommandLine("config.yaml", TRUE, None, None)>>,
     <<ZeroWeightFile, MissingFile, CommandLine("config.yaml", FALSE, "stop", None)>>,
     <<MissingFile, ThreeServersFile, CommandLine("other.yaml", FALSE, "start", None)>>}

InitLb ==
    /\ InitProcess
    /\ \E run \in LbRuns :
        /\ fs = [p \in Paths |-> IF p = "config.yaml" THEN run[1] ELSE run[2]]
        /\ cli = run[3]

NextMain ==
    \/ main_load_default
    \/ main_server_count
    \/ main_start
    \/ main_invalid_command

Next == NextMain

Spec == Init /\ [][Next]_vars

\* startup followed by the dispatch engine
NextServing == NextMain \/ NextLb

SpecLb == InitLb /\ [][NextServing]_vars

(***************************************************************************)
(* Properties of startup (src/main.rs).                                    *)
(***************************************************************************)
\* the paths Config::update has read to the end without failing
LoadedPaths ==
    CASE pc = "serving" -> {"config.yaml", cli.path}
      [] pc \in {"loaded", "exit"} -> {"config.yaml"}
      [] OTHER -> {}

\* the addresses on the servers: line of a file, parsed
FileAddrs(file) ==
    [i \in 1..Len(file.servers) |-> parse_uri(trim(file.servers[i]))]

EqualLengths(file) ==
    /\ Len(file.weights) = Len(file.servers)
    /\ Len(file.max_connections) = Len(file.servers)

\* C1: a config file whose servers, weights and max connections lists differ
\* in length is never loaded: Config::update fails on it, so main neither
\* goes on with it nor reaches lb::start_lb.
C1_LengthMismatchIsFatal ==
    pc = "serving" =>
        \A p \in LoadedPaths : Len(fs[p].servers) > 0 => EqualLengths(fs[p])

\* the servers a config file describes: the i-th address with the i-th
\* weight and the i-th cap, idle
ExpectedServers(file) ==
    [i \in 1..Len(file.servers) |->
        [addr |-> FileAddrs(file)[i], weight |-> file.weights[i],
         max_connections |-> file.max_connections[i],
         response_time |-> 0, connections |-> 0]]

\* C2: the server list handed to lb::start_lb is exactly one Server per
\* address of the config file's servers: line, in order, each with its own
\* weight and cap, and no server twice.
C2_HandedListIsTheConfiguredList ==
    pc = "serving" => config.servers = ExpectedServers(fs[cli.path])

\* C3: get_algo maps each of the six identifiers to its own variant (the one
\* get_algo_rev names by that identifier, so the six are distinct) and every
\* other string to RoundRobin.
C3_GetAlgoTable ==
    \A c \in algoCalls :
        /\ c[2] \in Algorithm
        /\ c[1] \in AlgorithmIdentifiers => get_algo_rev(c[2]) = c[1]
        /\ c[1] \notin AlgorithmIdentifiers => c[2] = "RoundRobin"

C3_Witness ==
    /\ pc = "serving"
    /\ cli.algorithm = None
    /\ <<"LEAST_CONNECTIONS", "RoundRobin">> \in algoCalls
    /\ <<"round_robin", "RoundRobin">> \in algoCalls

IsWeighted(algo) ==
    algo \in {"WeightedRoundRobin", "WeightedLeastConnections",
              "WeightedLeastResponseTime"}

\* C4: no Server of weight 0 is handed to lb::start_lb under a weighted
\* algorithm: such a config file is rejected when it is loaded.
C4_ZeroWeightRejected ==
    (pc = "serving" /\ IsWeighted(config.algo)) =>
        \A i \in DOMAIN config.servers : config.servers[i].weight >= 1

\* C7: after Config::new and any number of Config::update calls, the dead
\* list is empty and every configured server is in the alive list with no
\* active connection and a zero response time.
C7_StartupAllAliveAndIdle ==
    /\ config.dead_servers = <<>>
    /\ \A i \in DOMAIN config.servers :
            /\ config.servers[i].connections = 0
            /\ config.servers[i].response_time = 0
    /\ \A p \in LoadedPaths : \A i \in DOMAIN fs[p].servers :
            FileAddrs(fs[p])[i] \in AddrsOf(config.servers)

C7_Witness ==
    /\ pc = "serving"
    /\ cli.path = "other.yaml"
    /\ Len(fs["config.yaml"].servers) >= 2
    /\ Len(fs["other.yaml"].servers) >= 2
    /\ Len(config.servers) >= 4

\* C8: --server-count prints the number of servers of the config file in
\* use, the one --path names.
C8_ServerCountOfPathFile ==
    (pc = "exit" /\ cli.server_count /\ ~UpdateFails(fs[cli.path])) =>
        output = Len(fs[cli.path].servers)

\* what Config::update stores for an address string
ListenAddress(s) ==
    IF uri_ok(s) THEN parse_uri(s) ELSE parse_uri("http://127.0.0.1:8000")

\* C10: lb::start_lb gets the -a and -u values when they are given, and the
\* values on the algorithm: and load balancer: lines of the --path file
\* when they are not.
C10_CliOverridesPathFile ==
    pc = "serving" =>
        LET file == fs[cli.path] IN
        /\ cli.algorithm # None => config.algo = get_algo(cli.algorithm)
        /\ (cli.algorithm = None /\ file.algorithm # None) =>
                config.algo = get_algo(trim(file.algorithm))
        /\ cli.address # None => config.load_balancer = ListenAddress(cli.address)
        /\ (cli.address = None /\ file.load_balancer # None) =>
                config.load_balancer = ListenAddress(trim(file.load_balancer))

(***************************************************************************)
(* Properties of the dispatch engine.                                      *)
(***************************************************************************)
RECURSIVE Connections(_, _)
\* the active connections the entries of address a hold
Connections(servers, a) ==
    IF servers = <<>> THEN 0
    ELSE (IF Head(servers).addr = a THEN Head(servers).connections ELSE 0)
            + Connections(Tail(servers), a)

\* the requests that hold a connection of the server with address a
InFlight(a) == {r \in 1..MaxRequests : req[r].pc = "forwarding" /\ req[r].target = a}

\* C5: a request that selected a server calls incrementConnections and
\* decrementConnections once each, however it ends, so a server's active
\* connections are its requests in flight and none once they have ended.
C5_ConnectionsMatchInFlight ==
    pc = "serving" =>
        /\ \A a \in AddrsOf(listAll(config)) :
                Connections(listAll(config), a) = Cardinality(InFlight(a))
        /\ \A r \in 1..MaxRequests :
                /\ req[r].pc = "done" => req[r].incs = 1 /\ req[r].decs = 1
                /\ req[r].pc = "forwarding" => req[r].incs = 1 /\ req[r].decs = 0
                /\ req[r].pc \in {"admitted", "selected", "unavailable"} =>
                        req[r].incs = 0 /\ req[r].decs = 0

C5_Witness ==
    /\ pc = "serving"
    /\ req[1].pc = "done" /\ req[1].outcome = "timeout"
    /\ req[2].pc = "done" /\ req[2].outcome = "client disconnect"
    /\ req[1].target = req[2].target
    /\ HasAddr(config.dead_servers, req[1].target)
    /\ Connections(listAll(config), req[1].target) = 0

\* the number of entries with address a
Count(addrs, a) == Cardinality({i \in DOMAIN addrs : addrs[i] = a})

\* the addresses configured so far, with the number of times each was
ConfiguredCount(a) ==
    (IF "config.yaml" \in LoadedPaths
     THEN Count(FileAddrs(fs["config.yaml"]), a) ELSE 0)
    + (IF pc = "serving" THEN Count(FileAddrs(fs[cli.path]), a) ELSE 0)

ListedAddrs(servers) == [i \in DOMAIN servers |-> servers[i].addr]

\* the addresses of the files loaded so far
ConfiguredAddrs ==
    UNION {{FileAddrs(fs[p])[i] : i \in DOMAIN fs[p].servers} : p \in LoadedPaths}

\* C6: while the process runs, every configured server is in the alive list
\* or in the dead list, never in both and never in neither, and none is
\* dropped or added.
C6_AliveDeadPartition ==
    pc # "fatal" =>
        \A a \in AddrsOf(listAll(config)) \cup ConfiguredAddrs :
            /\ ~(HasAddr(config.servers, a) /\ HasAddr(config.dead_servers, a))
            /\ HasAddr(config.servers, a) \/ HasAddr(config.dead_servers, a)
            /\ Count(ListedAddrs(config.servers), a)
                + Count(ListedAddrs(config.dead_servers), a) = ConfiguredCount(a)

C6_Witness ==
    /\ pc = "serving"
    /\ Len(config.servers) >= 1
    /\ Len(config.dead_servers) >= 2
    /\ \E r \in 1..MaxRequests :
            req[r].pc = "selected" /\ HasAddr(config.dead_servers, req[r].target)

RECURSIVE Expansion(_, _)
\* the rotation of weighted round robin: weight copies of each position of
\* the alive list, in order
Expansion(alive, i) ==
    IF i > Len(alive) THEN <<>>
    ELSE [k \in 1..alive[i].weight |-> i] \o Expansion(alive, i + 1)

RECURSIVE FileExpansion(_, _)
\* weight copies of each address of a config file, in order
FileExpansion(file, i) ==
    IF i > Len(file.servers) THEN <<>>
    ELSE [k \in 1..file.weights[i] |-> FileAddrs(file)[i]]
            \o FileExpansion(file, i + 1)

\* the addresses picked in the open cycle
PickedAddrs == [k \in DOMAIN picks |-> listAlive(config)[picks[k]].addr]

\* C9: under weighted round robin, while the alive set does not change, the
\* selections of a cycle are weight(S) contiguous picks of each server S in
\* configuration order; with everything alive, they are the servers of the
\* config file by its weights.
C9_WeightedCycle ==
    (pc = "serving" /\ cycleOpen) =>
        /\ Len(picks) <= SumWeights(listAlive(config))
        /\ picks = SubSeq(Expansion(listAlive(config), 1), 1, Len(picks))
        /\ (seed = FileAddrs(fs[cli.path]) /\ config.dead_servers = <<>>) =>
                PickedAddrs = SubSeq(FileExpansion(fs[cli.path], 1), 1, Len(picks))

C9_Witness ==
    /\ pc = "serving"
    /\ cycleOpen
    /\ [i \in DOMAIN config.servers |-> config.servers[i].weight] = <<3, 1, 1>>
    /\ PickedAddrs = <<Backend(1), Backend(1), Backend(1), Backend(2), Backend(3)>>
    /\ cursor = 0

====
